---- MODULE Spec2Model ----
(***************************************************************************)
(* TravoMate: the budget extraction / reconciliation function of app.py    *)
(* (extract_budget_from_response) and the Streamlit turn handler around it *)
(* (user submission, model call, budget branch, Clear Chat History).       *)
(*                                                                         *)
(* Texts are sequences of tokens.  A token is what one regular expression  *)
(* of app.py looks at: a plain word, a currency-marked number, a category  *)
(* keyword followed by a number (first pattern of a category) or a         *)
(* currency-marked number followed by a context keyword (second pattern).  *)
(* The characters after the marker are kept raw: the digit group the       *)
(* pattern \d+(?:,\d+)* captures and its conversion by int(...replace)     *)
(* are computed.  Python floats are IEEE doubles: the divisions and        *)
(* products of lines 69-87 are computed on 53-bit mantissas with           *)
(* round-to-nearest-even, and int() truncates the rounded product.         *)
(***************************************************************************)
EXTENDS Integers, Sequences, FiniteSets, TLC

VARIABLES messages, latest_budget, budget_total, pc, user_input, reply,
          response_breakdown, budget_data, total_budget, budget_type,
          viz, error, calls, call_arg, before, turns

vars == <<messages, latest_budget, budget_total, pc, user_input, reply,
          response_breakdown, budget_data, total_budget, budget_type,
          viz, error, calls, call_arg, before, turns>>

(***************************************************************************)
(* Bounds                                                                  *)
(***************************************************************************)
MaxMatches == 2
MaxTurns == 2

(***************************************************************************)
(* Integers, bit strings and IEEE double arithmetic                        *)
(***************************************************************************)
Abs(x) == IF x < 0 THEN -x ELSE x

Prec == 53

\* the w-bit binary representation of 0 <= n < 2^w, most significant bit first
IntToBits(n, w) == [k \in 1..w |-> (n \div (2 ^ (w - k))) % 2]

RECURSIVE BitsToInt(_)
BitsToInt(b) ==
    IF Len(b) = 0 THEN 0
    ELSE IF Len(b) = 1 THEN b[1]
    ELSE LET h == Len(b) \div 2
         IN  BitsToInt(SubSeq(b, 1, h)) * (2 ^ (Len(b) - h))
               + BitsToInt(SubSeq(b, h + 1, Len(b)))

\* b + 1 for a bit string b that is not all ones
IncBits(b) ==
    LET z == CHOOSE i \in 1..Len(b) : b[i] = 0 /\ \A j \in (i + 1)..Len(b) : b[j] = 1
    IN  [i \in 1..Len(b) |-> IF i < z THEN b[i] ELSE IF i = z THEN 1 ELSE 0]

AllOnes(b) == \A i \in 1..Len(b) : b[i] = 1

\* index of the first 1 of a bit string that has one
FirstOne(bits) == CHOOSE i \in 1..Len(bits) : bits[i] = 1 /\ \A j \in 1..(i - 1) : bits[j] = 0

RoundUp(m, pt) ==
    IF AllOnes(m) THEN [m |-> [i \in 1..Prec |-> IF i = 1 THEN 1 ELSE 0], pt |-> pt + 1]
    ELSE [m |-> IncBits(m), pt |-> pt]

RoundFrom(m, pt, guard, rest) ==
    IF guard = 1 /\ (rest \/ m[Prec] = 1) THEN RoundUp(m, pt) ELSE [m |-> m, pt |-> pt]

RoundAt(bits, s, point, sticky) ==
    RoundFrom([i \in 1..Prec |-> IF s + i - 1 <= Len(bits) THEN bits[s + i - 1] ELSE 0],
              point - s + 1,
              IF s + Prec <= Len(bits) THEN bits[s + Prec] ELSE 0,
              sticky \/ \E i \in (s + Prec + 1)..Len(bits) : bits[i] = 1)

\* The double nearest to the positive binary number bits[1..point] . bits[point+1..]
\* (sticky: a nonzero part lies beyond the last bit), round-to-nearest, ties
\* to even.  A double is [m, pt]: a Prec-bit significand with leading 1 and
\* the number of its bits that stand before the binary point.
RoundToDouble(bits, point, sticky) == RoundAt(bits, FirstOne(bits), point, sticky)

IntBits == 31
LimbBits == 8
DivLimbs == 10
MulLimbs == 7

\* the bits of a sequence of LimbBits-bit limbs, most significant first
LimbsToBits(limbs) ==
    [j \in 1..(Len(limbs) * LimbBits) |->
        (limbs[((j - 1) \div LimbBits) + 1]
           \div (2 ^ (LimbBits - 1 - ((j - 1) % LimbBits)))) % 2]

\* long division, LimbBits bits at a step: the remainders r, 2^8 r mod b, ...
RECURSIVE DivRems(_, _, _)
DivRems(r, b, k) ==
    IF k = 0 THEN <<r>>
    ELSE <<r>> \o DivRems((r * (2 ^ LimbBits)) % b, b, k - 1)

DivFrom(a, b, rems) ==
    RoundToDouble(IntToBits(a \div b, IntBits)
                    \o LimbsToBits([i \in 1..DivLimbs |-> (rems[i] * (2 ^ LimbBits)) \div b]),
                  IntBits, rems[DivLimbs + 1] # 0)

\* the double nearest to a / b, for integers a > 0, 0 < b < 2^23 (Python int / int)
FloatDiv(a, b) == DivFrom(a, b, DivRems(a % b, b, DivLimbs))

\* n times the limbs of a significand, least significant limb first:
\* the carries 0, c1, c2, ...
RECURSIVE MulCarries(_, _, _, _)
MulCarries(n, limbs, i, carry) ==
    IF i = 0 THEN <<carry>>
    ELSE <<carry>> \o MulCarries(n, limbs, i - 1, (n * limbs[i] + carry) \div (2 ^ LimbBits))

\* cs[k] is the carry into limb MulLimbs + 1 - k
MulFrom(n, limbs, cs, point) ==
    RoundToDouble(IntToBits(cs[MulLimbs + 1], IntBits)
                    \o LimbsToBits([i \in 1..MulLimbs |->
                          (n * limbs[i] + cs[MulLimbs + 1 - i]) % (2 ^ LimbBits)]),
                  point, FALSE)

MulLimbsOf(n, limbs, point) == MulFrom(n, limbs, MulCarries(n, limbs, MulLimbs, 0), point)

MulPadded(n, mp, point) ==
    MulLimbsOf(n, [i \in 1..MulLimbs |->
                     BitsToInt(SubSeq(mp, (i - 1) * LimbBits + 1, i * LimbBits))], point)

\* the double nearest to n * f, for an integer 0 < n < 2^22 and a double f > 0
FloatMul(n, f) ==
    MulPadded(n, [i \in 1..(MulLimbs * LimbBits - Prec) |-> 0] \o f.m,
              IntBits + (MulLimbs * LimbBits - Prec) + f.pt)

\* int(f): truncation of a positive double below 2^31
FloatToInt(f) == IF f.pt <= 0 THEN 0 ELSE BitsToInt(SubSeq(f.m, 1, f.pt))

\* int(n * (a / b)) as Python computes it
IntOfProduct(n, a, b) ==
    IF n = 0 \/ a = 0 THEN 0 ELSE FloatToInt(FloatMul(n, FloatDiv(a, b)))

\* d > n * (a / b) for an integer d: an int and a float compare exactly
IntGreaterThanProduct(d, n, a, b) == d > IntOfProduct(n, a, b)

(***************************************************************************)
(* Texts                                                                   *)
(***************************************************************************)
DigitChars == {"0", "1", "2", "3", "4", "5", "6", "7", "8", "9"}

DigitVal(c) ==
    CASE c = "0" -> 0 [] c = "1" -> 1 [] c = "2" -> 2 [] c = "3" -> 3 [] c = "4" -> 4
      [] c = "5" -> 5 [] c = "6" -> 6 [] c = "7" -> 7 [] c = "8" -> 8 [] c = "9" -> 9

\* p is in the language of \d+(?:,\d+)*
IsDigitGroup(p) ==
    /\ Len(p) > 0
    /\ \A i \in 1..Len(p) : p[i] \in DigitChars \/ p[i] = ","
    /\ p[1] \in DigitChars
    /\ p[Len(p)] \in DigitChars
    /\ \A i \in 1..(Len(p) - 1) : ~(p[i] = "," /\ p[i + 1] = ",")

\* length of group(1): the greedy match of \d+(?:,\d+)* at the start of raw,
\* 0 when the pattern does not match there
MatchLen(raw) ==
    LET ks == {k \in 1..Len(raw) : IsDigitGroup(SubSeq(raw, 1, k))}
    IN  IF ks = {} THEN 0 ELSE CHOOSE k \in ks : \A j \in ks : j <= k

Group1(raw) == SubSeq(raw, 1, MatchLen(raw))

\* str.replace(',', '')
RemoveCommas(g) == SelectSeq(g, LAMBDA c : c # ",")

\* int() of a string of decimal digits
RECURSIVE ParseInt(_)
ParseInt(d) ==
    IF Len(d) = 0 THEN 0
    ELSE 10 * ParseInt(SubSeq(d, 1, Len(d) - 1)) + DigitVal(d[Len(d)])

\* int(match.group(1).replace(',', ''))
AmountOf(raw) == ParseInt(RemoveCommas(Group1(raw)))

Word == [kind |-> "word", cat |-> "none", raw |-> <<>>]
Rupee(raw) == [kind |-> "rupee", cat |-> "none", raw |-> raw]
Keyword(cat, raw) == [kind |-> "keyword", cat |-> cat, raw |-> raw]
Context(cat, raw) == [kind |-> "context", cat |-> cat, raw |-> raw]

\* None, for an integer that is non-negative when present
None == -1

\* re.search(r'<rupee>\s*(\d+(?:,\d+)*)', user_input) and the conversion
UserBudgetOf(text) ==
    LET hits == SelectSeq(text, LAMBDA t : t.kind = "rupee" /\ MatchLen(t.raw) > 0)
    IN  IF Len(hits) = 0 THEN None ELSE AmountOf(hits[1].raw)

\* the keys of patterns, in the order of the dict
Categories == <<"accommodation", "transport", "food", "activities", "miscellaneous">>

\* the two patterns of a category: keyword then number, number then keyword
PatternKinds == <<"keyword", "context">>

\* re.finditer(pattern, response_text.lower()) for pattern p of category cat.
\* In the second pattern the context keyword follows the digit group, so the
\* raw characters of the token must be a digit group as a whole.
Matches(text, cat, p) ==
    SelectSeq(text, LAMBDA t : /\ t.kind = PatternKinds[p]
                               /\ t.cat = cat
                               /\ MatchLen(t.raw) > 0
                               /\ (p = 2 => MatchLen(t.raw) = Len(t.raw)))

\* the matches in the order the three nested loops visit them
RECURSIVE MatchesFrom(_, _)
MatchesFrom(text, k) ==
    IF k > 2 * Len(Categories) THEN <<>>
    ELSE Matches(text, Categories[((k - 1) \div 2) + 1], ((k - 1) % 2) + 1)
           \o MatchesFrom(text, k + 1)

(***************************************************************************)
(* extract_budget_from_response                                            *)
(***************************************************************************)
EmptyDict == << >>

Put(d, k, v) == [x \in (DOMAIN d) \cup {k} |-> IF x = k THEN v ELSE d[x]]

RECURSIVE SumOver(_, _)
SumOver(d, ks) ==
    IF ks = {} THEN 0
    ELSE LET k == CHOOSE x \in ks : TRUE IN d[k] + SumOver(d, ks \ {k})

\* sum(d.values())
Sum(d) == SumOver(d, DOMAIN d)

ReasonableAny(amount) == amount >= 0

\* line 57
Reasonable(amount) == amount >= 500

ReplacesAlways(breakdown, category, amount) == TRUE

\* line 58
Replaces(breakdown, category, amount) ==
    category \notin DOMAIN breakdown \/ amount > breakdown[category]

RECURSIVE ParseFrom(_, _, _)
ParseFrom(ms, i, breakdown) ==
    IF i > Len(ms) THEN breakdown
    ELSE LET amount == AmountOf(ms[i].raw)
             category == ms[i].cat
         IN  IF Reasonable(amount) /\ Replaces(breakdown, category, amount)
             THEN ParseFrom(ms, i + 1, Put(breakdown, category, amount))
             ELSE ParseFrom(ms, i + 1, breakdown)

\* lines 50-59
ResponseBreakdown(response_text) == ParseFrom(MatchesFrom(response_text, 1), 1, EmptyDict)

SignificantlyDifferentOrEqual(response_total, user_budget) ==
    10 * Abs(response_total - user_budget) >= user_budget

\* line 69: abs(response_total - user_budget) > user_budget * 0.1
SignificantlyDifferent(response_total, user_budget) ==
    IntGreaterThanProduct(Abs(response_total - user_budget), user_budget, 1, 10)

ScaledBy(breakdown, scale_factor) ==
    [c \in DOMAIN breakdown |-> FloatToInt(FloatMul(breakdown[c], scale_factor))]

ScaledTotalIsSum(breakdown, user_budget, response_total) ==
    [budget_data |-> ScaledBy(breakdown, FloatDiv(user_budget, response_total)),
     total_budget |-> Sum(ScaledBy(breakdown, FloatDiv(user_budget, response_total))),
     budget_type |-> "scaled"]

\* lines 71-76
Scaled(breakdown, user_budget, response_total) ==
    [budget_data |-> ScaledBy(breakdown, FloatDiv(user_budget, response_total)),
     total_budget |-> user_budget, budget_type |-> "scaled"]

\* lines 79 and 93-94
Specific(breakdown, response_total) ==
    [budget_data |-> breakdown, total_budget |-> response_total, budget_type |-> "specific"]

\* lines 82-89
Estimated(user_budget) ==
    [budget_data |-> [c \in {Categories[i] : i \in 1..5} |->
                        CASE c = "accommodation" -> IntOfProduct(user_budget, 35, 100)
                          [] c = "transport" -> IntOfProduct(user_budget, 25, 100)
                          [] c = "food" -> IntOfProduct(user_budget, 20, 100)
                          [] c = "activities" -> IntOfProduct(user_budget, 15, 100)
                          [] c = "miscellaneous" -> IntOfProduct(user_budget, 5, 100)],
     total_budget |-> user_budget, budget_type |-> "estimated"]

\* line 96: return None, None, None
Absent == [budget_data |-> EmptyDict, total_budget |-> None, budget_type |-> "None"]

\* truth value of an int-or-None and of a dict
TruthyInt(x) == x # None /\ x # 0
TruthyDict(d) == DOMAIN d # {}

\* lines 61-96
Reconcile(breakdown, user_budget) ==
    IF TruthyInt(user_budget)
    THEN IF TruthyDict(breakdown)
         THEN IF SignificantlyDifferent(Sum(breakdown), user_budget)
              THEN Scaled(breakdown, user_budget, Sum(breakdown))
              ELSE Specific(breakdown, Sum(breakdown))
         ELSE Estimated(user_budget)
    ELSE IF TruthyDict(breakdown) THEN Specific(breakdown, Sum(breakdown))
    ELSE Absent

extract_budget_from_response(response_text, user_text) ==
    Reconcile(ResponseBreakdown(response_text), UserBudgetOf(user_text))

(***************************************************************************)
(* The session and the turn handler                                        *)
(***************************************************************************)
TRAVEL_ASSISTANT_PROMPT == <<Word, Word, Word>>

SystemTurn == [role |-> "system", content |-> TRAVEL_ASSISTANT_PROMPT]
UserTurn(text) == [role |-> "user", content |-> text]
AssistantTurn(text) == [role |-> "assistant", content |-> text]

\* lines 440-442 and 450-453
InitialMessages == <<SystemTurn>>

NoViz == [called |-> FALSE, arg |-> EmptyDict]

\* the state of a script run that has not reached the budget branch
NoTurn ==
    /\ reply = << >>
    /\ response_breakdown = EmptyDict
    /\ budget_data = EmptyDict
    /\ total_budget = None
    /\ budget_type = "None"
    /\ viz = NoViz
    /\ error = FALSE

Resting == pc \in {"idle", "replied", "failed", "rerun"}

Init ==
    /\ messages = InitialMessages
    /\ latest_budget = EmptyDict
    /\ budget_total = None
    /\ pc = "idle"
    /\ user_input = << >>
    /\ NoTurn
    /\ calls = 0
    /\ call_arg = << >>
    /\ before = [messages |-> InitialMessages, latest_budget |-> EmptyDict, budget_total |-> None]
    /\ turns = 0

\* lines 481-485: a submitted text (chat input or sample prompt) is appended
Submit(text) ==
    /\ Resting
    /\ turns < MaxTurns
    /\ turns' = turns + 1
    /\ before' = [messages |-> messages, latest_budget |-> latest_budget,
                  budget_total |-> budget_total]
    /\ messages' = Append(messages, UserTurn(text))
    /\ user_input' = text
    /\ pc' = "submitted"
    /\ reply' = << >>
    /\ response_breakdown' = EmptyDict
    /\ budget_data' = EmptyDict
    /\ total_budget' = None
    /\ budget_type' = "None"
    /\ viz' = NoViz
    /\ error' = FALSE
    /\ calls' = 0
    /\ call_arg' = << >>
    /\ UNCHANGED <<latest_budget, budget_total>>

CallModelSkipSystem ==
    /\ pc = "submitted"
    /\ pc' = "calling"
    /\ calls' = calls + 1
    /\ call_arg' = Tail(messages)
    /\ UNCHANGED <<messages, latest_budget, budget_total, user_input, reply,
                   response_breakdown, budget_data, total_budget, budget_type,
                   viz, error, before, turns>>

\* line 491: chat_with_openrouter(st.session_state.messages) is entered
CallModel ==
    /\ pc = "submitted"
    /\ pc' = "calling"
    /\ calls' = calls + 1
    /\ call_arg' = messages
    /\ UNCHANGED <<messages, latest_budget, budget_total, user_input, reply,
                   response_breakdown, budget_data, total_budget, budget_type,
                   viz, error, before, turns>>

DetectedAlways(result) == TRUE

\* line 497: if budget_data
Detected(result) == result.budget_type # "None" /\ TruthyDict(result.budget_data)

\* lines 491-575 when the call returns: the assistant turn, the extraction and
\* the budget branch; line 533 divides by sum(budget_data.values()), and a
\* ZeroDivisionError there lands in the except clause of lines 576-578
ReplyOkWith(text, breakdown, result) ==
    /\ pc = "calling"
    /\ pc' = "replied"
    /\ messages' = Append(messages, AssistantTurn(text))
    /\ reply' = text
    /\ response_breakdown' = breakdown
    /\ budget_data' = result.budget_data
    /\ total_budget' = result.total_budget
    /\ budget_type' = result.budget_type
    /\ IF Detected(result)
       THEN /\ latest_budget' = result.budget_data
            /\ budget_total' = result.total_budget
            /\ viz' = [called |-> TRUE, arg |-> result.budget_data]
            /\ error' = (Sum(result.budget_data) = 0)
       ELSE /\ UNCHANGED <<latest_budget, budget_total>>
            /\ viz' = NoViz
            /\ error' = FALSE
    /\ UNCHANGED <<user_input, calls, call_arg, before, turns>>

ReplyOkParsed(text, breakdown) ==
    ReplyOkWith(text, breakdown, Reconcile(breakdown, UserBudgetOf(user_input)))

ReplyOk(text) == ReplyOkParsed(text, ResponseBreakdown(text))

ReplyFailPartial ==
    /\ pc = "calling"
    /\ pc' = "failed"
    /\ error' = TRUE
    /\ messages' = Append(messages, AssistantTurn(<< >>))
    /\ UNCHANGED <<latest_budget, budget_total, user_input, reply,
                   response_breakdown, budget_data, total_budget, budget_type,
                   viz, calls, call_arg, before, turns>>

\* lines 17-18 of openrouter_chat.py raise; lines 576-578 of app.py
ReplyFail ==
    /\ pc = "calling"
    /\ pc' = "failed"
    /\ error' = TRUE
    /\ UNCHANGED <<messages, latest_budget, budget_total, user_input, reply,
                   response_breakdown, budget_data, total_budget, budget_type,
                   viz, calls, call_arg, before, turns>>

ClearChatEmpty ==
    /\ Resting
    /\ pc' = "idle"
    /\ messages' = << >>
    /\ user_input' = << >>
    /\ reply' = << >>
    /\ response_breakdown' = EmptyDict
    /\ budget_data' = EmptyDict
    /\ total_budget' = None
    /\ budget_type' = "None"
    /\ viz' = NoViz
    /\ error' = FALSE
    /\ calls' = 0
    /\ call_arg' = << >>
    /\ UNCHANGED <<latest_budget, budget_total, before, turns>>

ClearChatAll ==
    /\ Resting
    /\ pc' = "idle"
    /\ messages' = InitialMessages
    /\ latest_budget' = EmptyDict
    /\ budget_total' = None
    /\ user_input' = << >>
    /\ reply' = << >>
    /\ response_breakdown' = EmptyDict
    /\ budget_data' = EmptyDict
    /\ total_budget' = None
    /\ budget_type' = "None"
    /\ viz' = NoViz
    /\ error' = FALSE
    /\ calls' = 0
    /\ call_arg' = << >>
    /\ UNCHANGED <<before, turns>>

\* lines 439-443, and the rerun without input that follows
ClearChat ==
    /\ Resting
    /\ pc' = "idle"
    /\ messages' = InitialMessages
    /\ user_input' = << >>
    /\ reply' = << >>
    /\ response_breakdown' = EmptyDict
    /\ budget_data' = EmptyDict
    /\ total_budget' = None
    /\ budget_type' = "None"
    /\ viz' = NoViz
    /\ error' = FALSE
    /\ calls' = 0
    /\ call_arg' = << >>
    /\ UNCHANGED <<latest_budget, budget_total, before, turns>>

\* A script run without input: the click of a button other than Clear Chat
\* (Add Budget Breakdown of line 542, Random Travel Fact of line 654).  The
\* chat input is empty in that run, so lines 481-578 are skipped and the
\* output of the last turn is gone; the session state is as it was.
Rerun ==
    /\ Resting
    /\ pc' = "rerun"
    /\ user_input' = << >>
    /\ reply' = << >>
    /\ response_breakdown' = EmptyDict
    /\ budget_data' = EmptyDict
    /\ total_budget' = None
    /\ budget_type' = "None"
    /\ viz' = NoViz
    /\ error' = FALSE
    /\ calls' = 0
    /\ call_arg' = << >>
    /\ UNCHANGED <<messages, latest_budget, budget_total, before, turns>>

\* line 582: the Current Budget panel is rendered
PanelShown == TruthyDict(latest_budget)

(***************************************************************************)
(* Inputs                                                                  *)
(***************************************************************************)
R0 == <<"0">>
R1 == <<"1">>
R180 == <<"1", "8", "0">>
R499 == <<"4", "9", "9">>
R500 == <<"5", "0", "0">>
R1001 == <<"1", "0", "0", "1">>
R2000 == <<"2", "0", "0", "0">>
R4000 == <<"4", ",", "0", "0", "0">>
R4800 == <<"4", "8", "0", "0">>
R5000 == <<"5", "0", "0", "0">>
R9000 == <<"9", ",", "0", "0", "0">>
R10000 == <<"1", "0", ",", "0", "0", "0">>
R20000 == <<"2", "0", "0", "0", "0">>

\* texts of the session specification
UserTexts ==
    { <<Word>>, <<Word, Rupee(R10000)>>, <<Rupee(R1), Word>>, <<Rupee(R0)>> }

Replies ==
    { <<Word>>,
      <<Keyword("accommodation", R4000), Word, Context("transport", R2000)>>,
      <<Keyword("food", R9000), Keyword("food", R499)>> }

\* texts of the extraction specification
UserTextsX ==
    { <<Word>> }
    \cup { <<Rupee(r)>> : r \in {R0, R1, R180, R1001, R5000, R10000, R20000} }
    \cup { <<Rupee(<<",", "5">>), Word, Rupee(R10000 \o <<",">>), Rupee(R500)>> }

GenTokens ==
    { Keyword(c, r) : c \in {"accommodation", "transport"}, r \in {R499, R500, R4000} }
    \cup { Context(c, r) : c \in {"accommodation", "transport"}, r \in {R499, R500, R4000} }

RepliesX ==
    UNION { [1..n -> GenTokens] : n \in 0..MaxMatches }
    \cup { <<Word>>,
           <<Keyword("accommodation", R4000), Keyword("transport", R2000)>>,
           <<Word, Keyword("accommodation", R5000), Context("food", R4800)>>,
           <<Keyword("activities", R9000), Keyword("miscellaneous", R500 \o <<",">>)>>,
           <<Context("food", R500 \o <<",">>), Keyword("food", <<"x">>)>>,
           <<Context("miscellaneous", R2000), Keyword("miscellaneous", R5000),
             Keyword("miscellaneous", R0)>> }

(***************************************************************************)
(* Specifications                                                          *)
(***************************************************************************)
Next ==
    \/ \E text \in UserTexts : Submit(text)
    \/ CallModel
    \/ \E text \in Replies : ReplyOk(text)
    \/ ReplyFail
    \/ ClearChat
    \/ Rerun

Spec == Init /\ [][Next]_vars

\* one call of extract_budget_from_response(reply, user_input)
InitX ==
    /\ messages = InitialMessages
    /\ latest_budget = EmptyDict
    /\ budget_total = None
    /\ pc = "extract"
    /\ user_input \in UserTextsX
    /\ reply \in RepliesX
    /\ response_breakdown = EmptyDict
    /\ budget_data = EmptyDict
    /\ total_budget = None
    /\ budget_type = "None"
    /\ viz = NoViz
    /\ error = FALSE
    /\ calls = 0
    /\ call_arg = << >>
    /\ before = [messages |-> InitialMessages, latest_budget |-> EmptyDict, budget_total |-> None]
    /\ turns = 0

ExtractWith(breakdown, result) ==
    /\ pc = "extract"
    /\ pc' = "extracted"
    /\ response_breakdown' = breakdown
    /\ budget_data' = result.budget_data
    /\ total_budget' = result.total_budget
    /\ budget_type' = result.budget_type
    /\ UNCHANGED <<messages, latest_budget, budget_total, user_input, reply,
                   viz, error, calls, call_arg, before, turns>>

ExtractParsed(breakdown) ==
    ExtractWith(breakdown, Reconcile(breakdown, UserBudgetOf(user_input)))

Extract == ExtractParsed(ResponseBreakdown(reply))

NextX == Extract

SpecX == InitX /\ [][NextX]_vars

(***************************************************************************)
(* Properties of extract_budget_from_response (SpecX)                      *)
(***************************************************************************)
Returned == pc = "extracted" /\ budget_type # "None"

UserTotal == UserBudgetOf(user_input)

ResponseTotal == Sum(response_breakdown)

C2_AmountsPositive ==
    Returned => \A c \in DOMAIN budget_data : budget_data[c] > 0

\* C3: a user total found in the message (0 included), a non-empty parsed
\* breakdown and more than 10% deviation give a result tagged scaled, with the
\* categories of the parsed breakdown and each amount the truncation of
\* amount * userTotal / responseTotal.
C3_ScaledWhenFarOff ==
    (/\ pc = "extracted"
     /\ UserTotal # None
     /\ response_breakdown # EmptyDict
     /\ 10 * Abs(ResponseTotal - UserTotal) > UserTotal)
    => /\ budget_type = "scaled"
       /\ DOMAIN budget_data = DOMAIN response_breakdown
       /\ \A c \in DOMAIN response_breakdown :
             budget_data[c] = (response_breakdown[c] * UserTotal) \div ResponseTotal

\* C4: a non-empty parsed breakdown with no user total, or with a user total
\* within 10% (the boundary included), is returned unchanged, tagged specific,
\* with the sum of the parsed amounts as total.
C4_SpecificWhenClose ==
    (/\ pc = "extracted"
     /\ response_breakdown # EmptyDict
     /\ (UserTotal = None \/ 10 * Abs(ResponseTotal - UserTotal) <= UserTotal))
    => /\ budget_type = "specific"
       /\ budget_data = response_breakdown
       /\ total_budget = ResponseTotal

C4_Witness ==
    /\ pc = "extracted"
    /\ response_breakdown # EmptyDict
    /\ UserTotal # None
    /\ ResponseTotal # UserTotal
    /\ 10 * Abs(ResponseTotal - UserTotal) = UserTotal
    /\ budget_type = "specific"
    /\ budget_data = response_breakdown

\* C5: a user total found in the message (0 included) and no parsed category
\* give a result tagged estimated with 35%, 25%, 20%, 15% and 5% of the user
\* total, each truncated to an integer.
C5_EstimatedWhenNoBreakdown ==
    (/\ pc = "extracted"
     /\ UserTotal # None
     /\ response_breakdown = EmptyDict)
    => /\ budget_type = "estimated"
       /\ DOMAIN budget_data = {Categories[i] : i \in 1..5}
       /\ budget_data["accommodation"] = (35 * UserTotal) \div 100
       /\ budget_data["transport"] = (25 * UserTotal) \div 100
       /\ budget_data["food"] = (20 * UserTotal) \div 100
       /\ budget_data["activities"] = (15 * UserTotal) \div 100
       /\ budget_data["miscellaneous"] = (5 * UserTotal) \div 100

\* the amounts of the match candidates of a category, both patterns
CandidatesOf(text, c) ==
    {AmountOf(Matches(text, c, p)[i].raw) :
        <<p, i>> \in {<<q, j>> \in {1, 2} \X (1..Len(text)) : j <= Len(Matches(text, c, q))}}

Maximum(S) == CHOOSE x \in S : \A y \in S : y <= x

\* C9: every value of the parsed category mapping is at least 500; no match
\* candidate below 500 appears in it.
C9_ThresholdKept ==
    pc = "extracted" =>
        \A c \in DOMAIN response_breakdown :
            /\ response_breakdown[c] >= 500
            /\ \A a \in CandidatesOf(reply, c) : a < 500 => response_breakdown[c] # a

C9_Witness ==
    /\ pc = "extracted"
    /\ \E c \in DOMAIN response_breakdown :
          /\ \E a \in CandidatesOf(reply, c) : a < 500
          /\ response_breakdown[c] >= 500

\* C10: the parsed amount of a category is the maximum of its candidates that
\* are at least 500, and the category is absent when no candidate reaches 500.
C10_MaxWins ==
    pc = "extracted" =>
        \A i \in 1..5 :
            LET c == Categories[i]
                big == {a \in CandidatesOf(reply, c) : a >= 500}
            IN  IF big = {} THEN c \notin DOMAIN response_breakdown
                ELSE c \in DOMAIN response_breakdown
                     /\ response_breakdown[c] = Maximum(big)

\* a category with candidates from both patterns, the larger one visited first
C10_Witness ==
    /\ pc = "extracted"
    /\ \E i \in 1..5 :
          LET m1 == Matches(reply, Categories[i], 1)
              m2 == Matches(reply, Categories[i], 2)
          IN  /\ Len(m1) >= 1
              /\ Len(m2) >= 1
              /\ AmountOf(m1[1].raw) > AmountOf(m2[1].raw)
              /\ AmountOf(m2[1].raw) >= 500
              /\ response_breakdown[Categories[i]] = AmountOf(m1[1].raw)

(***************************************************************************)
(* Properties of the session (Spec)                                        *)
(***************************************************************************)
\* C6: a successful turn with neither a user total nor a parsed category
\* returns absent and does not invoke create_budget_visualization; the builder
\* is invoked in a turn only with the non-absent breakdown of that turn.
C6_AbsentNoVisualization ==
    /\ (pc = "replied" /\ UserTotal = None /\ response_breakdown = EmptyDict)
          => (budget_type = "None" /\ ~viz.called)
    /\ viz.called => /\ pc = "replied"
                     /\ budget_type # "None"
                     /\ viz.arg = budget_data
                     /\ viz.arg # EmptyDict

C6_Witness ==
    /\ pc = "replied"
    /\ UserTotal = None
    /\ response_breakdown = EmptyDict
    /\ budget_type = "None"
    /\ ~viz.called
    /\ messages[Len(messages)] = AssistantTurn(reply)

\* C7: the history is never empty, starts with the system turn and has no
\* other system turn; after a reset it is the single system turn.
C7_SystemTurnFirst ==
    /\ Len(messages) >= 1
    /\ messages[1] = SystemTurn
    /\ \A i \in 2..Len(messages) : messages[i].role # "system"
    /\ pc = "idle" => messages = <<SystemTurn>>

\* a reset after a failed and a successful submission
C7_Witness ==
    /\ pc = "idle"
    /\ turns >= 2
    /\ latest_budget # EmptyDict
    /\ messages = <<SystemTurn>>

\* C8: after a failed model call the history is the history before the
\* submission plus the user turn, the stored breakdown is the one before the
\* submission, and a further submission is accepted.
C8_FailedTurnKeepsState ==
    pc = "failed" =>
        /\ messages = Append(before.messages, UserTurn(user_input))
        /\ messages[Len(messages)].role = "user"
        /\ latest_budget = before.latest_budget
        /\ budget_total = before.budget_total
        /\ turns < MaxTurns => \A text \in UserTexts : ENABLED Submit(text)

C8_Witness ==
    /\ pc = "failed"
    /\ error
    /\ Len(messages) >= 4
    /\ latest_budget # EmptyDict
    /\ latest_budget = before.latest_budget


\* C11: a submission makes exactly one model call, after the user turn was
\* appended and before the assistant turn is, with the whole history from
\* the system turn to the submitted user turn as argument.
C11_OneCallWithFullHistory ==
    /\ pc = "submitted" => calls = 0
    /\ pc \in {"calling", "replied", "failed"} =>
          /\ calls = 1
          /\ call_arg = Append(before.messages, UserTurn(user_input))
          /\ call_arg[1] = SystemTurn
          /\ call_arg[Len(call_arg)] = UserTurn(user_input)
    /\ pc \in {"calling", "failed"} => messages = call_arg
    /\ pc = "replied" => messages = Append(call_arg, AssistantTurn(reply))

\* the call of a second submission, whose argument holds the first exchange
C11_Witness ==
    /\ pc = "replied"
    /\ calls = 1
    /\ Len(call_arg) = 4
    /\ call_arg[3].role = "assistant"
    /\ messages = Append(call_arg, AssistantTurn(reply))

(***************************************************************************)
(* Truncation drift (SpecX)                                                *)
(***************************************************************************)
\* C12: the amounts of a scaled or estimated breakdown sum to at most the
\* user total and to more than the user total minus the number of categories.
C12_DriftBelowOnePerCategory ==
    (Returned /\ budget_type \in {"scaled", "estimated"}) =>
        /\ Sum(budget_data) <= UserTotal
        /\ Sum(budget_data) > UserTotal - Cardinality(DOMAIN budget_data)

(***************************************************************************)
(* The budget branch of a successful turn and the stored breakdown (Spec)  *)
(***************************************************************************)
\* C13: a turn whose model call succeeded does not end in the error notice;
\* a rendered breakdown has a positive sum, the divisor of line 533.
C13_SuccessfulTurnDoesNotRaise ==
    pc = "replied" =>
        /\ ~error
        /\ viz.called => Sum(budget_data) > 0

\* C14: latest_budget changes only in a successful turn that detected a
\* breakdown, to that non-empty breakdown; a turn with an absent result, a
\* failed call, a run without input and Clear Chat leave it as it was, and
\* after Clear Chat the history is the single system turn while the stored
\* breakdown is still shown in the Current Budget panel.
C14_LatestBudgetFrame ==
    [][/\ latest_budget' # latest_budget =>
             /\ pc = "calling"
             /\ pc' = "replied"
             /\ budget_type' # "None"
             /\ latest_budget' = budget_data'
             /\ TruthyDict(latest_budget')
       /\ (pc' = "replied" /\ budget_type' = "None") => latest_budget' = latest_budget
       /\ pc' \in {"failed", "rerun"} => latest_budget' = latest_budget
       /\ (Resting /\ pc' = "idle") =>
             /\ messages' = <<SystemTurn>>
             /\ latest_budget' = latest_budget
             /\ PanelShown => PanelShown']_vars

\* after Clear Chat: the history is reset, the breakdown of an earlier turn is kept
C14_Witness ==
    /\ pc = "idle"
    /\ messages = <<SystemTurn>>
    /\ PanelShown
    /\ Sum(latest_budget) > 0
    /\ budget_total # None
    /\ budget_data = EmptyDict

====
